---- MODULE Spec2Model ----
(***************************************************************************)
(* A model of teer, a cooperative task scheduler built on coroutines       *)
(* (src/teer.py): the task table, the ready deque, the exit-wait and       *)
(* condition-wait registries, the two pause sets, the timer heap of        *)
(* TimerScheduler and the loops step(), run() and timer_step().            *)
(*                                                                         *)
(* One action is one iteration of a loop of the program: one iteration of  *)
(* step() pops the front task, resumes it and runs the whole handler of    *)
(* the request it yields (or the whole exit notification).  The body of a  *)
(* task is arbitrary code: what it yields next is a nondeterministic       *)
(* choice among the requests.                                              *)
(***************************************************************************)
EXTENDS Integers, Sequences, FiniteSets, TLC

\* ------------------------------------------------------------------------
\* Bounds of the model
\* ------------------------------------------------------------------------
\* tasks ever created (Task.taskid never exceeds it)
MaxTasks == 3
\* longest id list given to wait-any / wait-all
MaxIds == 3
\* longest list of watchers of one task in the exit-wait registry
MaxWaiters == 2
\* timers ever pushed (timer_counter never exceeds it)
MaxTimers == 2
\* the clock stops advancing by itself at this time
MaxTime == 1
\* longest processing of a task before it sleeps on its rate, in units of time
MaxWork == 2
\* wakeups of a task by its rate
MaxWakes == 2

Tids == 1..MaxTasks
\* the durations of the wait-duration requests: none, and one unit of time
Durations == {0, 1}

\* the periods of the rates tasks create (Rate.duration)
Periods == {1, 2}

\* condition variables of the scheduler class (test_conditions.py has two)
Vars == {"x", "y"}
\* the predicates tasks wait on: co_names of the code object, and the
\* condition variables whose values decide it (all must be true)
Conds ==
  { [names |-> {"sched", "x"}, reads |-> {"x"}],
    [names |-> {"sched", "y"}, reads |-> {"y"}],
    [names |-> {"sched", "x", "y"}, reads |-> {"x", "y"}] }

\* ------------------------------------------------------------------------
\* Values sent into a task (Task.sendval)
\* ------------------------------------------------------------------------
VNone == [kind |-> "None", n |-> 0, l |-> << >>]
VBool(b) == [kind |-> "bool", n |-> IF b THEN 1 ELSE 0, l |-> << >>]
VInt(i) == [kind |-> "int", n |-> i, l |-> << >>]
VList(s) == [kind |-> "list", n |-> 0, l |-> s]
\* a list of Task objects (what KillAllTasksExcept appends), by their tids
VTasks(s) == [kind |-> "tasks", n |-> 0, l |-> s]

\* a task that has created no Rate
NoRate == [duration |-> 0, last_time |-> 0, t0 |-> 0, k |-> 0, late |-> FALSE]
\* the Rate object a task holds as its resume value
VRate == [kind |-> "rate", n |-> 0, l |-> << >>]

WAIT_ANY == 1
WAIT_ALL == 2

VARIABLES
  taskmap,            \* Scheduler.taskmap: the tids of the task table
  taskid,             \* Task.taskid: the last tid given
  closed,             \* tids whose coroutine has finished or was close()d
  sendval,            \* Task.sendval, by tid
  waitmode,           \* Task.waitmode, by tid
  ready,              \* Scheduler.ready: the deque of ready tasks
  exit_waiting,       \* Scheduler.exit_waiting: watched tid -> list of tasks
  cond_waiting,       \* Scheduler.cond_waiting: name -> list of (condition, task)
  paused_in_syscall,  \* Scheduler.paused_in_syscall
  paused_in_ready,    \* Scheduler.paused_in_ready
  timer_cb,           \* TimerScheduler.timer_cb: the heap of [t, counter, f]
  timer_counter,      \* TimerScheduler.timer_counter
  now,                \* what current_time() returns
  val,                \* the values of the condition variables
  pc,                 \* where the driving program is
  exc,                \* the exception that ended the program, or "none"
  ts_heap,            \* the heap and the time when timer_step() was entered
  ts_fired,           \* the timers the running timer_step() has fired, in order
  prio,               \* priority wakeups by a timer whose task has not run yet:
                      \* <<woken, overtaken, whether a pause undid the order>>
  written,            \* the condition variable the last step assigned, or "none"
  rate,               \* the Rate object of each task (duration, last_time), with
                      \* the time it was created at (t0), the wakeups it has
                      \* given (k) and whether one of its timers fired late
  rate_cb             \* the counters of the timers set by wait_duration_rate

vars == << taskmap, taskid, closed, sendval, waitmode, ready, exit_waiting,
           cond_waiting, paused_in_syscall, paused_in_ready, timer_cb,
           timer_counter, now, val, pc, exc, ts_heap, ts_fired, prio, written,
           rate, rate_cb >>

\* ------------------------------------------------------------------------
\* Sequences as Python lists and deques
\* ------------------------------------------------------------------------
Range(s) == { s[i] : i \in 1..Len(s) }

\* list.index(x) + 1, for x in the list
IndexOf(s, x) == CHOOSE i \in 1..Len(s) : s[i] = x /\ \A j \in 1..(i-1) : s[j] # x

\* list.remove(x) / deque.remove(x): drops the first occurrence
RemoveFirst(s, x) ==
  LET i == IndexOf(s, x)
  IN  SubSeq(s, 1, i-1) \o SubSeq(s, i+1, Len(s))

\* "for w in l: if w.tid == tid: l.remove(w)": the list iterator keeps an
\* index into the list it is iterating while remove() shifts the elements
RECURSIVE RemoveWhileIterating(_, _, _)
RemoveWhileIterating(l, tid, i) ==
  IF i > Len(l) THEN l
  ELSE IF l[i] = tid THEN RemoveWhileIterating(RemoveFirst(l, tid), tid, i+1)
  ELSE RemoveWhileIterating(l, tid, i+1)

\* all lists of ids of length at most n
\* the elements of a set of tids in the order a dict of small ints gives
\* its keys: ascending
RECURSIVE keys(_)
keys(S) == IF S = {} THEN << >>
           ELSE LET x == CHOOSE y \in S : \A z \in S : y <= z
                IN  << x >> \o keys(S \ {x})

\* the elements of the list s that are in the set S, in the order of s
RECURSIVE Filter(_, _)
Filter(s, S) == IF s = << >> THEN << >>
                ELSE (IF Head(s) \in S THEN << Head(s) >> ELSE << >>)
                     \o Filter(Tail(s), S)

IdLists(n) == UNION { [1..k -> Tids] : k \in 0..n }

\* ------------------------------------------------------------------------
\* The queues: the ready deque and the two pause sets, as one value q that
\* the methods below take and return
\* ------------------------------------------------------------------------
Queues == [ready |-> ready, pis |-> paused_in_syscall, pir |-> paused_in_ready]

\* a schedule that would put the task at the front, as schedule_now does
schedule_at_front(q, task) ==
  IF task \in q.pis
  THEN [q EXCEPT !.pis = @ \ {task}, !.pir = @ \cup {task}]
  ELSE [q EXCEPT !.ready = << task >> \o @]

schedule(q, task) ==
  IF task \in q.pis
  THEN [q EXCEPT !.pis = @ \ {task}, !.pir = @ \cup {task}]
  ELSE [q EXCEPT !.ready = Append(@, task)]

\* a schedule_now that would put the task at the back, as schedule does
schedule_now_at_back(q, task) ==
  IF task \in q.pis
  THEN [q EXCEPT !.pis = @ \ {task}, !.pir = @ \cup {task}]
  ELSE [q EXCEPT !.ready = Append(@, task)]

schedule_now(q, task) ==
  IF task \in q.pis
  THEN [q EXCEPT !.pis = @ \ {task}, !.pir = @ \cup {task}]
  ELSE [q EXCEPT !.ready = << task >> \o @]

\* a pause_task that would not test "task is None"
pause_task_of_any(q, tid) ==
  IF tid \in q.pir \/ tid \in q.pis
  THEN [q |-> q, ok |-> FALSE]
  ELSE IF tid \in Range(q.ready)
  THEN [q |-> [q EXCEPT !.ready = RemoveFirst(@, tid), !.pir = @ \cup {tid}],
        ok |-> TRUE]
  ELSE [q |-> [q EXCEPT !.pis = @ \cup {tid}], ok |-> TRUE]

\* pause_task(self.taskmap.get(tid)): the queues after it, and what it returns
pause_task(q, tid) ==
  IF tid \notin taskmap \/ tid \in q.pir \/ tid \in q.pis
  THEN [q |-> q, ok |-> FALSE]
  ELSE IF tid \in Range(q.ready)
  THEN [q |-> [q EXCEPT !.ready = RemoveFirst(@, tid), !.pir = @ \cup {tid}],
        ok |-> TRUE]
  ELSE [q |-> [q EXCEPT !.pis = @ \cup {tid}], ok |-> TRUE]

\* a resume_task that would put a task paused in a syscall on the ready queue
resume_task_waking(q, tid) ==
  IF tid \notin taskmap THEN [q |-> q, ok |-> FALSE]
  ELSE IF tid \in q.pir
  THEN [q |-> [q EXCEPT !.pir = @ \ {tid}, !.ready = << tid >> \o @],
        ok |-> TRUE]
  ELSE IF tid \in q.pis
  THEN [q |-> [q EXCEPT !.pis = @ \ {tid}, !.ready = << tid >> \o @],
        ok |-> TRUE]
  ELSE [q |-> q, ok |-> FALSE]

\* resume_task(self.taskmap.get(tid)): the queues after it, and what it returns
resume_task(q, tid) ==
  IF tid \notin taskmap THEN [q |-> q, ok |-> FALSE]
  ELSE IF tid \in q.pir
  THEN [q |-> [q EXCEPT !.pir = @ \ {tid}, !.ready = << tid >> \o @],
        ok |-> TRUE]
  ELSE IF tid \in q.pis
  THEN [q |-> [q EXCEPT !.pis = @ \ {tid}], ok |-> TRUE]
  ELSE [q |-> q, ok |-> FALSE]

SetQueues(q) ==
  /\ ready' = q.ready
  /\ paused_in_syscall' = q.pis
  /\ paused_in_ready' = q.pir

\* ------------------------------------------------------------------------
\* Exit notification and exit-wait registration
\* ------------------------------------------------------------------------
\* a dict as a function: its keys are its DOMAIN
DictPop(d, k) == [j \in DOMAIN d \ {k} |-> d[j]]
DictGetList(d, k) == IF k \in DOMAIN d THEN d[k] ELSE << >>
DictSet(d, k, v) == [j \in DOMAIN d \cup {k} |-> IF j = k THEN v ELSE d[j]]

\* the ids under which task is registered as an exit-watcher
Watched(ew, task) == { k \in DOMAIN ew : task \in Range(ew[k]) }

\* exit(): the loop over the tasks waiting for the exit of tid, from the
\* i-th on.  st holds the registry after the pop, the queues and sendval.
RECURSIVE notify_exit(_, _, _, _)
notify_exit(waiters, i, tid, st) ==
  IF i > Len(waiters) THEN st
  ELSE
    LET task == waiters[i]
        woken == [st EXCEPT !.sv[task] = VInt(tid), !.q = schedule(@, task)]
    IN  IF waitmode[task] = WAIT_ANY
        THEN notify_exit(waiters, i+1, tid,
               [woken EXCEPT !.ew = [k \in DOMAIN @ |->
                                       RemoveWhileIterating(@[k], task, 1)]])
        ELSE IF Watched(st.ew, task) # {}
        THEN notify_exit(waiters, i+1, tid, st)
        ELSE notify_exit(waiters, i+1, tid, woken)

\* the last line of exit(): keys whose list is empty are dropped
purge_empty(ew) == [k \in { j \in DOMAIN ew : ew[j] # << >> } |-> ew[k]]

\* exit() of a task in the table, with the queues q
exit_task(tid, q) ==
  LET st == notify_exit(DictGetList(exit_waiting, tid), 1, tid,
                        [ew |-> DictPop(exit_waiting, tid), q |-> q, sv |-> sendval])
  IN  [st EXCEPT !.ew = purge_empty(@)]

\* a variant of wait_for_exit that registers under any id, in the table or not
wait_for_exit_of_any(ew, task, waittid) ==
  [ew |-> DictSet(ew, waittid, Append(DictGetList(ew, waittid), task)),
   ok |-> TRUE]

\* wait_for_exit(task, waittid) on registry ew
wait_for_exit(ew, task, waittid) ==
  IF waittid \in taskmap
  THEN [ew |-> DictSet(ew, waittid, Append(DictGetList(ew, waittid), task)),
        ok |-> TRUE]
  ELSE [ew |-> ew, ok |-> FALSE]

\* the registry stays within the bound of the model
Bounded(ew) == \A k \in DOMAIN ew : Len(ew[k]) <= MaxWaiters

\* wait_for_exit for each id of tids from the i-th on: the registry after
\* them, and whether any succeeded
RECURSIVE wait_for_each(_, _, _, _)
wait_for_each(ew, task, tids, i) ==
  IF i > Len(tids) THEN [ew |-> ew, ok |-> FALSE]
  ELSE LET r == wait_for_exit(ew, task, tids[i])
           rest == wait_for_each(r.ew, task, tids, i+1)
       IN  [ew |-> rest.ew, ok |-> r.ok \/ rest.ok]

\* ------------------------------------------------------------------------
\* Conditions
\* ------------------------------------------------------------------------
\* condition(): the predicate evaluated on the values v
Holds(c, v) == \A n \in c.reads : v[n]

\* the co_names of the predicate, in some order
RECURSIVE SetToSeq(_)
SetToSeq(S) == IF S = {} THEN << >>
               ELSE LET x == CHOOSE y \in S : TRUE
                    IN  << x >> \o SetToSeq(S \ {x})

\* _add_condition(entry)
add_condition(cw, entry) ==
  [n \in DOMAIN cw \cup entry.cond.names |->
     IF n \in entry.cond.names
     THEN Append(DictGetList(cw, n), entry)
     ELSE cw[n]]

\* _del_condition(candidate): removed from the list of each of its names
\* that is a key, and a list left empty is deleted
del_condition(cw, cand) ==
  LET hit == cand.cond.names \cap DOMAIN cw
      cut == [n \in DOMAIN cw |->
                IF n \in hit THEN RemoveFirst(cw[n], cand) ELSE cw[n]]
  IN  [n \in { m \in DOMAIN cw : ~(m \in hit /\ cut[m] = << >>) } |-> cut[n]]

\* test_conditions(name): the loop over the copied list, from the i-th on.
\* st holds the queues, the registry and the entries whose condition() was
\* called ("task not in paused_in_syscall and condition()" calls it only
\* for a task that is not paused in a syscall).
RECURSIVE test_candidates(_, _, _, _)
test_candidates(cands, i, v, st) ==
  IF i > Len(cands) THEN st
  ELSE LET cand == cands[i]
       IN  IF cand.task \in st.q.pis
           THEN test_candidates(cands, i+1, v, st)
           ELSE IF Holds(cand.cond, v)
           THEN test_candidates(cands, i+1, v,
                  [st EXCEPT !.q = schedule(@, cand.task),
                             !.cw = del_condition(@, cand),
                             !.ev = @ \cup {cand}])
           ELSE test_candidates(cands, i+1, v, [st EXCEPT !.ev = @ \cup {cand}])

\* a test_conditions that would go through the entries of every name
candidates_of_all_names(name) ==
  SetToSeq(UNION { Range(cond_waiting[n]) : n \in DOMAIN cond_waiting })

\* the list test_conditions(name) copies: copy.copy(self.cond_waiting[name]),
\* nothing when name is no key
candidates(name) == DictGetList(cond_waiting, name)

\* test_conditions(name) with the values v and the queues q
test_conditions(name, v, q) ==
  test_candidates(candidates(name), 1, v, [q |-> q, cw |-> cond_waiting, ev |-> {}])

\* ------------------------------------------------------------------------
\* Timers
\* ------------------------------------------------------------------------
\* heap order of [t, counter, f]: by t, then by counter
Earlier(a, b) == a.t < b.t \/ (a.t = b.t /\ a.counter < b.counter)

\* what heapq.heappop(self.timer_cb) returns
heap_min(h) == CHOOSE a \in h : \A b \in h \ {a} : Earlier(a, b)

\* set_timer_callback(t, lambda: resume(task)) of wait_duration
set_timer_callback(h, t, task) ==
  h \cup { [t |-> t, counter |-> timer_counter, task |-> task] }

\* ------------------------------------------------------------------------
\* The initial state: a TimerScheduler just constructed
\* ------------------------------------------------------------------------
Init ==
  /\ taskmap = {}
  /\ taskid = 0
  /\ closed = {}
  /\ sendval = [t \in Tids |-> VNone]
  /\ waitmode = [t \in Tids |-> WAIT_ANY]
  /\ ready = << >>
  /\ exit_waiting = << >>
  /\ cond_waiting = << >>
  /\ paused_in_syscall = {}
  /\ paused_in_ready = {}
  /\ timer_cb = {}
  /\ timer_counter = 0
  /\ now = 0
  /\ val = [n \in Vars |-> FALSE]
  /\ pc = "idle"
  /\ exc = "none"
  /\ ts_heap = << >>
  /\ ts_fired = << >>
  /\ prio = {}
  /\ written = "none"
  /\ rate = [t \in Tids |-> NoRate]
  /\ rate_cb = {}

\* ------------------------------------------------------------------------
\* step(): one iteration of "while self.ready"
\* ------------------------------------------------------------------------
\* the places of the program where step() is running
InStep == {"step", "run_step1", "run_step2", "ts_step"}

\* the loop has a task to pop
Popping == exc = "none" /\ pc \in InStep /\ ready # << >>

\* task = self.ready.popleft()
Current == Head(ready)
Popped == [Queues EXCEPT !.ready = Tail(ready)]

\* the coroutine of the popped task is still alive: task.run() returns
\* what the body yields
Yields == Popping /\ Current \notin closed

\* a priority wakeup is over once the woken task, or the one it overtook, is run
RunPrio == { p \in prio : p[1] # Current /\ p[2] # Current }

\* the step assigns no condition variable
NoWrite == written' = "none"

\* the step touches no Rate and fires no timer of one
RatesSame == UNCHANGED << rate, rate_cb >>

\* what a handler leaves alone, by group
TasksSame == UNCHANGED << taskmap, taskid, closed >>
WaitsSame == UNCHANGED << exit_waiting, cond_waiting >>
TimersSame == UNCHANGED << timer_cb, timer_counter, now >>
DriverSame == UNCHANGED << pc, exc, ts_heap, ts_fired >>

\* task.run() raises StopIteration: the body returns, or the coroutine was
\* closed by a kill or has already finished
TaskExit ==
  /\ Popping
  /\ NoWrite
  /\ RatesSame
  /\ IF Current \in taskmap
     THEN LET st == exit_task(Current, Popped)
          IN  /\ taskmap' = taskmap \ {Current}
              /\ exit_waiting' = st.ew
              /\ sendval' = st.sv
              /\ SetQueues(st.q)
              /\ exc' = exc
     ELSE \* del self.taskmap[tid] raises KeyError out of step()
          /\ exc' = "KeyError"
          /\ SetQueues(Popped)
          /\ UNCHANGED << taskmap, exit_waiting, sendval >>
  /\ closed' = closed \cup {Current}
  /\ prio' = RunPrio
  /\ UNCHANGED << taskid, waitmode, cond_waiting, val, pc, ts_heap, ts_fired >>
  /\ TimersSame

\* the body yields something that is no SystemCall: self.schedule(task)
TaskYield ==
  /\ Yields
  /\ NoWrite
  /\ RatesSame
  /\ SetQueues(schedule(Popped, Current))
  /\ prio' = RunPrio
  /\ UNCHANGED << sendval, waitmode, val >>
  /\ TasksSame /\ WaitsSame /\ TimersSame /\ DriverSame

\* the body assigns b to the condition variable name of the scheduler
\* (ConditionVariable.__set__), then yields
task_write(name, b) ==
  /\ Yields
  /\ val' = [val EXCEPT ![name] = b]
  /\ written' = name
  /\ RatesSame
  /\ LET st == test_conditions(name, val', Popped)
     IN  /\ cond_waiting' = st.cw
         /\ SetQueues(schedule(st.q, Current))
  /\ prio' = RunPrio
  /\ UNCHANGED << sendval, waitmode, exit_waiting >>
  /\ TasksSame /\ TimersSame /\ DriverSame

TaskWrite == \E name \in Vars, b \in BOOLEAN : task_write(name, b)

\* GetTid.handle
GetTid ==
  /\ Yields
  /\ NoWrite
  /\ RatesSame
  /\ sendval' = [sendval EXCEPT ![Current] = VInt(Current)]
  /\ SetQueues(schedule(Popped, Current))
  /\ prio' = RunPrio
  /\ UNCHANGED << waitmode, val >>
  /\ TasksSame /\ WaitsSame /\ TimersSame /\ DriverSame

\* Scheduler.new(target) with the queues q: the tid given and the queues after
new(q) == [tid |-> taskid + 1, q |-> schedule(q, taskid + 1)]

\* NewTask.handle
NewTask ==
  /\ Yields
  /\ NoWrite
  /\ RatesSame
  /\ taskid < MaxTasks
  /\ LET r == new(Popped)
     IN  /\ taskid' = r.tid
         /\ taskmap' = taskmap \cup {r.tid}
         /\ sendval' = [sendval EXCEPT ![Current] = VInt(r.tid)]
         /\ SetQueues(schedule(r.q, Current))
  /\ prio' = RunPrio
  /\ UNCHANGED << closed, waitmode, val >>
  /\ WaitsSame /\ TimersSame /\ DriverSame

\* GetTids.handle
GetTids ==
  /\ Yields
  /\ NoWrite
  /\ RatesSame
  /\ sendval' = [sendval EXCEPT ![Current] = VList(keys(taskmap))]
  /\ SetQueues(schedule(Popped, Current))
  /\ prio' = RunPrio
  /\ UNCHANGED << waitmode, val >>
  /\ TasksSame /\ WaitsSame /\ TimersSame /\ DriverSame

\* KillTask.handle with the id tid: task.target.close() ends the coroutine
\* where it is suspended, the task stays where it is in the scheduler
kill_request(tid) ==
  /\ Yields
  /\ NoWrite
  /\ RatesSame
  /\ closed' = IF tid \in taskmap THEN closed \cup {tid} ELSE closed
  /\ sendval' = [sendval EXCEPT ![Current] = VBool(tid \in taskmap)]
  /\ SetQueues(schedule(Popped, Current))
  /\ prio' = RunPrio
  /\ UNCHANGED << taskmap, taskid, waitmode, val >>
  /\ WaitsSame /\ TimersSame /\ DriverSame

KillTask == \E tid \in Tids : kill_request(tid)

\* KillTasks.handle with the list tids
kill_tasks(tids) ==
  /\ Yields
  /\ NoWrite
  /\ RatesSame
  /\ closed' = closed \cup (Range(tids) \cap taskmap)
  /\ sendval' = [sendval EXCEPT ![Current] = VList(Filter(tids, taskmap))]
  /\ SetQueues(schedule(Popped, Current))
  /\ prio' = RunPrio
  /\ UNCHANGED << taskmap, taskid, waitmode, val >>
  /\ WaitsSame /\ TimersSame /\ DriverSame

KillTasks == \E tids \in IdLists(MaxIds) : kill_tasks(tids)

\* KillAllTasksExcept.handle with the ids except_tids
kill_all_except(except_tids) ==
  /\ Yields
  /\ NoWrite
  /\ RatesSame
  /\ closed' = closed \cup (taskmap \ except_tids)
  /\ sendval' = [sendval EXCEPT ![Current] = VTasks(keys(taskmap \ except_tids))]
  /\ SetQueues(schedule(Popped, Current))
  /\ prio' = RunPrio
  /\ UNCHANGED << taskmap, taskid, waitmode, val >>
  /\ WaitsSame /\ TimersSame /\ DriverSame

KillAllTasksExcept == \E except_tids \in SUBSET Tids : kill_all_except(except_tids)

\* WaitTask.handle with the id tid
wait_task(tid) ==
  /\ Yields
  /\ NoWrite
  /\ RatesSame
  /\ LET r == wait_for_exit(exit_waiting, Current, tid)
     IN  /\ Bounded(r.ew)
         /\ exit_waiting' = r.ew
         /\ sendval' = [sendval EXCEPT ![Current] = VBool(r.ok)]
         /\ SetQueues(IF r.ok THEN Popped ELSE schedule(Popped, Current))
  /\ waitmode' = [waitmode EXCEPT ![Current] = WAIT_ANY]
  /\ prio' = RunPrio
  /\ UNCHANGED << cond_waiting, val >>
  /\ TasksSame /\ TimersSame /\ DriverSame

WaitTask == \E tid \in Tids : wait_task(tid)

\* the first id of tids that is not in the task table, 0 when all exist
first_missing(tids) ==
  IF \A i \in 1..Len(tids) : tids[i] \in taskmap THEN 0
  ELSE tids[CHOOSE i \in 1..Len(tids) :
              /\ tids[i] \notin taskmap
              /\ \A j \in 1..(i-1) : tids[j] \in taskmap]

\* WaitAnyTasks.handle with the list tids
wait_any(tids) ==
  /\ Yields
  /\ NoWrite
  /\ RatesSame
  /\ waitmode' = [waitmode EXCEPT ![Current] = WAIT_ANY]
  /\ IF first_missing(tids) = 0
     THEN /\ Bounded(wait_for_each(exit_waiting, Current, tids, 1).ew)
          /\ exit_waiting' = wait_for_each(exit_waiting, Current, tids, 1).ew
          /\ SetQueues(Popped)
          /\ sendval' = sendval
     ELSE /\ sendval' = [sendval EXCEPT ![Current] = VInt(first_missing(tids))]
          /\ SetQueues(schedule(Popped, Current))
          /\ exit_waiting' = exit_waiting
  /\ prio' = RunPrio
  /\ UNCHANGED << cond_waiting, val >>
  /\ TasksSame /\ TimersSame /\ DriverSame

WaitAnyTasks == \E tids \in IdLists(MaxIds) : wait_any(tids)

\* WaitAllTasks.handle with the list tids
wait_all(tids) ==
  /\ Yields
  /\ NoWrite
  /\ RatesSame
  /\ waitmode' = [waitmode EXCEPT ![Current] = WAIT_ALL]
  /\ LET r == wait_for_each(exit_waiting, Current, tids, 1)
     IN  /\ Bounded(r.ew)
         /\ exit_waiting' = r.ew
         /\ sendval' = [sendval EXCEPT ![Current] = VBool(r.ok)]
         /\ SetQueues(IF r.ok THEN Popped ELSE schedule(Popped, Current))
  /\ prio' = RunPrio
  /\ UNCHANGED << cond_waiting, val >>
  /\ TasksSame /\ TimersSame /\ DriverSame

WaitAllTasks == \E tids \in IdLists(MaxIds) : wait_all(tids)

\* a successful pause of tid takes a pending priority wakeup of tid, or over
\* tid, out of the order of the queue
PausePrio(tid, ok) ==
  { IF ok /\ tid \in {p[1], p[2]} THEN << p[1], p[2], TRUE >> ELSE p : p \in RunPrio }

\* PauseTask.handle, the body naming one of targets
pause_request(targets) ==
  /\ Yields
  /\ NoWrite
  /\ RatesSame
  /\ \E tid \in targets :
       LET r == pause_task(Popped, tid)
       IN  /\ sendval' = [sendval EXCEPT ![Current] = VBool(r.ok)]
           /\ SetQueues(schedule(r.q, Current))
           /\ prio' = PausePrio(tid, r.ok)
  /\ UNCHANGED << waitmode, val >>
  /\ TasksSame /\ WaitsSame /\ TimersSame /\ DriverSame

\* ResumeTask.handle, the body naming one of targets
resume_request(targets) ==
  /\ Yields
  /\ NoWrite
  /\ RatesSame
  /\ \E tid \in targets :
       LET r == resume_task(Popped, tid)
       IN  /\ sendval' = [sendval EXCEPT ![Current] = VBool(r.ok)]
           /\ SetQueues(schedule(r.q, Current))
  /\ prio' = RunPrio
  /\ UNCHANGED << waitmode, val >>
  /\ TasksSame /\ WaitsSame /\ TimersSame /\ DriverSame

\* PauseTasks.handle: pause_task for each id of tids from the i-th on; st
\* holds the queues and the list of the ids paused
RECURSIVE pause_each(_, _, _)
pause_each(tids, i, st) ==
  IF i > Len(tids) THEN st
  ELSE LET r == pause_task(st.q, tids[i])
       IN  pause_each(tids, i+1,
             [q |-> r.q, done |-> IF r.ok THEN Append(st.done, tids[i]) ELSE st.done])

\* ResumeTasks.handle: resume_task for each id of tids from the i-th on
RECURSIVE resume_each(_, _, _)
resume_each(tids, i, st) ==
  IF i > Len(tids) THEN st
  ELSE LET r == resume_task(st.q, tids[i])
       IN  resume_each(tids, i+1,
             [q |-> r.q, done |-> IF r.ok THEN Append(st.done, tids[i]) ELSE st.done])

\* PauseTasks.handle with the list tids
pause_tasks(tids) ==
  /\ Yields
  /\ NoWrite
  /\ RatesSame
  /\ LET st == pause_each(tids, 1, [q |-> Popped, done |-> << >>])
     IN  /\ sendval' = [sendval EXCEPT ![Current] = VList(st.done)]
         /\ SetQueues(schedule(st.q, Current))
         /\ prio' = { IF {p[1], p[2]} \cap Range(st.done) # {}
                      THEN << p[1], p[2], TRUE >> ELSE p : p \in RunPrio }
  /\ UNCHANGED << waitmode, val >>
  /\ TasksSame /\ WaitsSame /\ TimersSame /\ DriverSame

PauseTasks == \E tids \in IdLists(MaxIds) : pause_tasks(tids)

\* ResumeTasks.handle with the list tids
resume_tasks(tids) ==
  /\ Yields
  /\ NoWrite
  /\ RatesSame
  /\ LET st == resume_each(tids, 1, [q |-> Popped, done |-> << >>])
     IN  /\ sendval' = [sendval EXCEPT ![Current] = VList(st.done)]
         /\ SetQueues(schedule(st.q, Current))
  /\ prio' = RunPrio
  /\ UNCHANGED << waitmode, val >>
  /\ TasksSame /\ WaitsSame /\ TimersSame /\ DriverSame

ResumeTasks == \E tids \in IdLists(MaxIds) : resume_tasks(tids)

\* a pause or a resume of any id, present or not
PauseTask == pause_request(Tids)
ResumeTask == resume_request(Tids)

\* the ids that are not in the task table, and the lists of one or two such
\* ids, the same id twice included
Absent == Tids \ taskmap
AbsentLists == { << a >> : a \in Absent } \cup { << a, b >> : a, b \in Absent }

\* the requests that name only ids that are not in the task table
KillAbsent == \E tid \in Absent : kill_request(tid)
WaitAbsent == \E tid \in Absent : wait_task(tid)
PauseAbsent == pause_request(Absent)
ResumeAbsent == resume_request(Absent)
KillTasksAbsent == \E tids \in AbsentLists : kill_tasks(tids)
WaitAllAbsent == \E tids \in AbsentLists : wait_all(tids)
PauseTasksAbsent == \E tids \in AbsentLists : pause_tasks(tids)
ResumeTasksAbsent == \E tids \in AbsentLists : resume_tasks(tids)

\* a pause or a resume that succeeds.  One that fails changes nothing but the
\* resume value of the caller, which is then rescheduled as by GetTid.
PauseRunnable == pause_request({ t \in Tids : pause_task(Popped, t).ok })
ResumePaused == resume_request({ t \in Tids : resume_task(Popped, t).ok })

\* WaitDuration.handle: wait_duration(task, duration), then sendval = None
WaitDuration ==
  /\ Yields
  /\ NoWrite
  /\ RatesSame
  /\ timer_counter < MaxTimers
  /\ \E duration \in Durations :
       timer_cb' = set_timer_callback(timer_cb, now + duration, Current)
  /\ timer_counter' = timer_counter + 1
  /\ sendval' = [sendval EXCEPT ![Current] = VNone]
  /\ SetQueues(Popped)
  /\ prio' = RunPrio
  /\ UNCHANGED << waitmode, val, now >>
  /\ TasksSame /\ WaitsSame /\ DriverSame

\* CreateRate.handle: a Rate of the period duration, created now.  A task
\* holds one Rate.
create_rate(duration) ==
  /\ Yields
  /\ NoWrite
  /\ rate[Current] = NoRate
  /\ rate' = [rate EXCEPT ![Current] =
                [duration |-> duration, last_time |-> now, t0 |-> now,
                 k |-> 0, late |-> FALSE]]
  /\ rate_cb' = rate_cb
  /\ sendval' = [sendval EXCEPT ![Current] = VRate]
  /\ SetQueues(schedule(Popped, Current))
  /\ prio' = RunPrio
  /\ UNCHANGED << waitmode, val >>
  /\ TasksSame /\ WaitsSame /\ TimersSame /\ DriverSame

CreateRate == \E duration \in Periods : create_rate(duration)

\* Rate.sleep at the time cur_time: the remaining duration it returns
delta_time(r, cur_time) == r.duration - (cur_time - r.last_time)

\* Sleep.handle of a task that has worked for w units of time since it was
\* resumed: Rate.sleep sets a timer by wait_duration_rate if time remains in
\* the period, and calls sched.schedule(task) if not
sleep(w) ==
  /\ Yields
  /\ NoWrite
  /\ rate[Current] # NoRate
  /\ rate[Current].k < MaxWakes
  /\ LET cur_time == now + w
         delta == delta_time(rate[Current], cur_time)
     IN  /\ now' = cur_time
         /\ sendval' = [sendval EXCEPT ![Current] = VInt(delta)]
         /\ IF delta > 0
            THEN /\ timer_counter < MaxTimers
                 /\ timer_cb' = set_timer_callback(timer_cb, cur_time + delta, Current)
                 /\ timer_counter' = timer_counter + 1
                 /\ rate_cb' = rate_cb \cup {timer_counter}
                 /\ rate' = rate
                 /\ SetQueues(Popped)
            ELSE /\ UNCHANGED << timer_cb, timer_counter, rate_cb >>
                 /\ rate' = [rate EXCEPT ![Current].k = @ + 1]
                 /\ SetQueues(schedule(Popped, Current))
  /\ prio' = RunPrio
  /\ UNCHANGED << waitmode, val >>
  /\ TasksSame /\ WaitsSame /\ DriverSame

Sleep == \E w \in 0..MaxWork : sleep(w)

\* WaitCondition.handle: wait_condition(task, condition), then sendval = None
WaitCondition ==
  /\ Yields
  /\ NoWrite
  /\ RatesSame
  /\ \E c \in Conds :
       IF ~Holds(c, val)
       THEN /\ cond_waiting' = add_condition(cond_waiting, [cond |-> c, task |-> Current])
            /\ SetQueues(Popped)
       ELSE /\ cond_waiting' = cond_waiting
            /\ SetQueues(schedule_now(Popped, Current))
  /\ sendval' = [sendval EXCEPT ![Current] = VNone]
  /\ prio' = RunPrio
  /\ UNCHANGED << waitmode, val, exit_waiting >>
  /\ TasksSame /\ TimersSame /\ DriverSame

\* step() finds the deque empty and returns to where it was called
StepReturn ==
  /\ exc = "none"
  /\ NoWrite
  /\ RatesSame
  /\ pc \in InStep
  /\ ready = << >>
  /\ pc' = CASE pc = "step" -> "idle"
             [] pc = "run_step1" -> "run_pop"
             [] pc = "run_step2" -> "run"
             [] pc = "ts_step" -> "idle"
  /\ ts_heap' = << >>
  /\ ts_fired' = << >>
  /\ UNCHANGED << taskmap, taskid, closed, sendval, waitmode, ready, exit_waiting,
                  cond_waiting, paused_in_syscall, paused_in_ready, timer_cb,
                  timer_counter, now, val, exc, prio >>

\* ------------------------------------------------------------------------
\* The program that owns the scheduler, between two calls
\* ------------------------------------------------------------------------
Idle == exc = "none" /\ pc = "idle"

\* sched.new(target)
New ==
  /\ Idle
  /\ NoWrite
  /\ RatesSame
  /\ taskid < MaxTasks
  /\ LET r == new(Queues)
     IN  /\ taskid' = r.tid
         /\ taskmap' = taskmap \cup {r.tid}
         /\ SetQueues(r.q)
  /\ UNCHANGED << closed, sendval, waitmode, val, prio >>
  /\ WaitsSame /\ TimersSame /\ DriverSame

\* ConditionVariable.__set__: the program assigns sched.name = b
set_variable(name, b) ==
  /\ Idle
  /\ val' = [val EXCEPT ![name] = b]
  /\ written' = name
  /\ RatesSame
  /\ LET st == test_conditions(name, val', Queues)
     IN  /\ cond_waiting' = st.cw
         /\ SetQueues(st.q)
  /\ UNCHANGED << sendval, waitmode, exit_waiting, prio >>
  /\ TasksSame /\ TimersSame /\ DriverSame

SetVariable == \E name \in Vars, b \in BOOLEAN : set_variable(name, b)

\* sched.step()
CallStep ==
  /\ Idle
  /\ NoWrite
  /\ RatesSame
  /\ pc' = "step"
  /\ UNCHANGED << taskmap, taskid, closed, sendval, waitmode, ready, exit_waiting,
                  cond_waiting, paused_in_syscall, paused_in_ready, timer_cb,
                  timer_counter, now, val, exc, ts_heap, ts_fired, prio >>

\* time passes between two calls (the clock is coarse next to a call)
Tick ==
  /\ Idle
  /\ NoWrite
  /\ RatesSame
  /\ now < MaxTime
  /\ now' = now + 1
  /\ UNCHANGED << taskmap, taskid, closed, sendval, waitmode, ready, exit_waiting,
                  cond_waiting, paused_in_syscall, paused_in_ready, timer_cb,
                  timer_counter, val, pc, exc, ts_heap, ts_fired, prio >>

\* a timer callback that would append the task, as schedule does
fire_at_back(q, e) == schedule(q, e.task)

\* ------------------------------------------------------------------------
\* TimerScheduler.run() and timer_step()
\* ------------------------------------------------------------------------
\* the callback of a timer, resume(task): schedule_now(task).  The priority
\* wakeup of a task put at the front is recorded against each task it overtakes;
\* one already recorded as overtaken is itself moved to the front.
fire(q, e) == schedule_now(q, e.task)

\* the callback of a timer of wait_duration_rate, fired at time: resume(task,
\* rate) sets rate.last_time = current_time() before schedule_now(task)
resume_rate(e, time) ==
  IF e.counter \in rate_cb
  THEN [rate EXCEPT ![e.task] =
          [@ EXCEPT !.last_time = time, !.k = @ + 1, !.late = @ \/ time > e.t]]
  ELSE rate

FirePrio(e) ==
  { IF p[2] = e.task THEN << p[1], p[2], TRUE >> ELSE p : p \in prio }
  \cup (IF e.task \in paused_in_syscall THEN {}
        ELSE { << e.task, b, FALSE >> : b \in Range(ready) \ {e.task} })

\* sched.run()
CallRun ==
  /\ Idle
  /\ NoWrite
  /\ RatesSame
  /\ pc' = "run"
  /\ UNCHANGED << taskmap, taskid, closed, sendval, waitmode, ready, exit_waiting,
                  cond_waiting, paused_in_syscall, paused_in_ready, timer_cb,
                  timer_counter, now, val, exc, ts_heap, ts_fired, prio >>

\* "while self.timer_cb or self.ready or self.cond_waiting": step() or return
RunTest ==
  /\ exc = "none"
  /\ NoWrite
  /\ RatesSame
  /\ pc = "run"
  /\ pc' = IF timer_cb # {} \/ ready # << >> \/ DOMAIN cond_waiting # {}
           THEN "run_step1" ELSE "idle"
  /\ UNCHANGED << taskmap, taskid, closed, sendval, waitmode, ready, exit_waiting,
                  cond_waiting, paused_in_syscall, paused_in_ready, timer_cb,
                  timer_counter, now, val, exc, ts_heap, ts_fired, prio >>

\* after the first step() of run(): heappop, sleep until the deadline, f()
RunPop ==
  /\ exc = "none"
  /\ NoWrite
  /\ pc = "run_pop"
  /\ IF timer_cb = {}
     THEN \* heappop of an empty list raises IndexError out of run()
          /\ exc' = "IndexError"
          /\ UNCHANGED << pc, timer_cb, now, ready, paused_in_syscall,
                          paused_in_ready, prio, rate, rate_cb >>
     ELSE LET e == heap_min(timer_cb)
          IN  /\ timer_cb' = timer_cb \ {e}
              /\ now' = IF e.t - now >= 0 THEN e.t ELSE now
              /\ rate' = resume_rate(e, now')
              /\ rate_cb' = rate_cb \ {e.counter}
              /\ SetQueues(fire(Queues, e))
              /\ prio' = FirePrio(e)
              /\ pc' = "run_step2"
              /\ exc' = exc
  /\ UNCHANGED << taskmap, taskid, closed, sendval, waitmode, exit_waiting,
                  cond_waiting, timer_counter, val, ts_heap, ts_fired >>

\* sched.timer_step()
CallTimerStep ==
  /\ Idle
  /\ NoWrite
  /\ RatesSame
  /\ pc' = "ts_loop"
  /\ ts_heap' = [heap |-> timer_cb, now |-> now]
  /\ ts_fired' = << >>
  /\ UNCHANGED << taskmap, taskid, closed, sendval, waitmode, ready, exit_waiting,
                  cond_waiting, paused_in_syscall, paused_in_ready, timer_cb,
                  timer_counter, now, val, exc, prio >>

\* a timer_step() that would fire only on a duration < 0
elapsed_strictly(e, time) == e.t - time < 0

\* whether timer_step() fires the timer it popped: duration <= 0
elapsed(e, time) == e.t - time <= 0

\* timer_step(): an iteration of "while self.timer_cb" that fires the timer
TimerStepFire ==
  /\ exc = "none"
  /\ NoWrite
  /\ pc = "ts_loop"
  /\ timer_cb # {}
  /\ LET e == heap_min(timer_cb)
     IN  /\ elapsed(e, now)
         /\ timer_cb' = timer_cb \ {e}
         /\ rate' = resume_rate(e, now)
         /\ rate_cb' = rate_cb \ {e.counter}
         /\ SetQueues(fire(Queues, e))
         /\ prio' = FirePrio(e)
         /\ ts_fired' = Append(ts_fired, e)
  /\ UNCHANGED << taskmap, taskid, closed, sendval, waitmode, exit_waiting,
                  cond_waiting, timer_counter, now, val, pc, exc, ts_heap >>

\* timer_step(): the loop ends, on an empty heap or on a timer pushed back
TimerStepBreak ==
  /\ exc = "none"
  /\ NoWrite
  /\ RatesSame
  /\ pc = "ts_loop"
  /\ timer_cb # {} => ~elapsed(heap_min(timer_cb), now)
  /\ pc' = "ts_step"
  /\ UNCHANGED << taskmap, taskid, closed, sendval, waitmode, ready, exit_waiting,
                  cond_waiting, paused_in_syscall, paused_in_ready, timer_cb,
                  timer_counter, now, val, exc, ts_heap, ts_fired, prio >>

\* ------------------------------------------------------------------------
\* Specifications
\* ------------------------------------------------------------------------
\* every operation of the model
Next ==
  \/ TaskExit \/ TaskYield \/ TaskWrite \/ GetTid \/ GetTids \/ NewTask
  \/ KillTask \/ KillTasks \/ KillAllTasksExcept \/ PauseTasks \/ ResumeTasks
  \/ WaitTask \/ WaitAnyTasks \/ WaitAllTasks \/ PauseTask \/ ResumeTask
  \/ WaitDuration \/ WaitCondition \/ CreateRate \/ Sleep \/ StepReturn
  \/ New \/ SetVariable \/ CallStep \/ Tick
  \/ CallRun \/ RunTest \/ RunPop
  \/ CallTimerStep \/ TimerStepFire \/ TimerStepBreak

Spec == Init /\ [][Next]_vars

\* tasks that wait for the exit of tasks, driven by step()
NextWait ==
  \/ New \/ CallStep \/ StepReturn
  \/ TaskExit \/ TaskYield \/ WaitTask \/ WaitAnyTasks \/ WaitAllTasks

SpecWait == Init /\ [][NextWait]_vars

\* tasks that wait for the exit of tasks and pause and resume tasks
NextPause ==
  \/ New \/ CallStep \/ StepReturn
  \/ TaskExit \/ TaskYield \/ WaitAnyTasks \/ PauseRunnable \/ ResumePaused

SpecPause == Init /\ [][NextPause]_vars

\* tasks that sleep and pause tasks, driven by timer_step() as time passes
NextTimer ==
  \/ New \/ Tick \/ CallTimerStep \/ TimerStepFire \/ TimerStepBreak \/ StepReturn
  \/ TaskExit \/ TaskYield \/ WaitDuration \/ PauseRunnable

SpecTimer == Init /\ [][NextTimer]_vars

\* tasks that sleep and wait on conditions, driven by run()
NextRun ==
  \/ New \/ SetVariable \/ Tick \/ CallRun \/ RunTest \/ RunPop \/ StepReturn
  \/ TaskExit \/ TaskYield \/ WaitDuration \/ WaitCondition

SpecRun == Init /\ [][NextRun]_vars

\* tasks that wait on conditions and pause and resume tasks, driven by step()
\* while the program assigns condition variables between two calls
NextCond ==
  \/ New \/ SetVariable \/ CallStep \/ StepReturn
  \/ TaskYield \/ WaitCondition \/ PauseRunnable \/ ResumePaused

SpecCond == Init /\ [][NextCond]_vars

\* tasks that sleep, wait for exits, kill tasks and list the task table,
\* driven by timer_step() at one time
NextKill ==
  \/ New \/ CallTimerStep \/ TimerStepFire \/ TimerStepBreak \/ StepReturn
  \/ TaskExit \/ WaitTask \/ WaitDuration
  \/ KillTask \/ KillAllTasksExcept \/ GetTids

SpecKill == Init /\ [][NextKill]_vars

\* tasks that wait for exits and pause tasks, and that kill, wait for, pause
\* and resume ids that are not in the task table (no task has them yet),
\* driven by step()
NextAbsent ==
  \/ New \/ CallStep \/ StepReturn
  \/ WaitTask \/ PauseRunnable
  \/ KillAbsent \/ WaitAbsent \/ PauseAbsent \/ ResumeAbsent
  \/ KillTasksAbsent \/ WaitAllAbsent \/ PauseTasksAbsent \/ ResumeTasksAbsent

SpecAbsent == Init /\ [][NextAbsent]_vars

\* tasks that loop on a Rate, working between two sleeps, driven by
\* timer_step() as time passes
NextRate ==
  \/ New \/ Tick \/ CallTimerStep \/ TimerStepFire \/ TimerStepBreak \/ StepReturn
  \/ TaskExit \/ CreateRate \/ Sleep

SpecRate == Init /\ [][NextRate]_vars

\* ------------------------------------------------------------------------
\* What the claims speak of
\* ------------------------------------------------------------------------
InReady(t) == t \in Range(ready)
Paused(t) == t \in paused_in_syscall \cup paused_in_ready

\* the entries of the condition-wait registry, and the tasks they park
CondEntries == UNION { Range(cond_waiting[n]) : n \in DOMAIN cond_waiting }
CondWaiters == { e.task : e \in CondEntries }

\* the tasks with a pending timer
TimerWaiters == { e.task : e \in timer_cb }

\* parked on a wait: an exit-wait, a condition-wait or a pending timer
Parked(t) ==
  \/ Watched(exit_waiting, t) # {}
  \/ t \in CondWaiters
  \/ t \in TimerWaiters

\* the task c of the table exits in this step
Exits(c) == Popping /\ Current = c /\ c \in taskmap /\ c \notin taskmap'

\* the watchers of c in the exit-wait registry
Watchers(c) == Range(DictGetList(exit_waiting, c))

\* the exit of c wakes its watcher a: a waits for one, or c is the last
\* task a still watches
Wakes(c, a) ==
  /\ a \in Watchers(c)
  /\ waitmode[a] = WAIT_ANY \/ Watched(exit_waiting, a) = {c}

\* ------------------------------------------------------------------------
\* C1
\* ------------------------------------------------------------------------
\* the four states of a task of the table
StatesOf(t) ==
  { i \in 1..4 :
      \/ i = 1 /\ InReady(t)
      \/ i = 2 /\ t \in paused_in_ready
      \/ i = 3 /\ Parked(t) /\ ~Paused(t)
      \/ i = 4 /\ t \in paused_in_syscall }

\* C1: between two resumptions every task of the table is in exactly one of
\* the ready queue, paused_in_ready, parked on a wait and not paused,
\* paused_in_syscall; the pause sets are disjoint and no paused task is in
\* the ready queue.
C1_OneStatePerTask ==
  exc = "none" =>
    /\ \A t \in taskmap : Cardinality(StatesOf(t)) = 1
    /\ paused_in_ready \cap paused_in_syscall = {}
    /\ \A t \in paused_in_ready \cup paused_in_syscall : ~InReady(t)

\* ------------------------------------------------------------------------
\* C2
\* ------------------------------------------------------------------------
\* C2: in the exit step of c every task that is not paused and waits for
\* one on c is put on the ready queue with the id c as its resume value, and
\* is left registered as the watcher of no task.
C2_WaitForOne ==
  [][ \A c \in Tids : Exits(c) =>
        \A a \in Watchers(c) :
          (waitmode[a] = WAIT_ANY /\ ~Paused(a)) =>
            /\ a \in Range(ready')
            /\ sendval'[a] = VInt(c)
            /\ Watched(exit_waiting', a) = {} ]_vars

\* ------------------------------------------------------------------------
\* C3
\* ------------------------------------------------------------------------
\* C3: a wait-all registers the caller under exactly the ids of its list that
\* are in the table; a task waiting for all that is still registered is not
\* on the ready queue; and the exit of the last task it watches puts it on the
\* ready queue (if it is not paused) with that id as its resume value, while
\* an exit that is not the last leaves it off the queue.
C3_WaitForAll ==
  /\ [][ \A tids \in IdLists(MaxIds) : wait_all(tids) =>
           Watched(exit_waiting', Current) = Range(tids) \cap taskmap ]_vars
  /\ [](exc = "none" =>
          \A a \in Tids :
            (waitmode[a] = WAIT_ALL /\ Watched(exit_waiting, a) # {}) => ~InReady(a))
  /\ [][ \A c \in Tids : Exits(c) =>
           \A a \in Watchers(c) :
             (waitmode[a] = WAIT_ALL /\ ~Paused(a)) =>
               IF Watched(exit_waiting, a) = {c}
               THEN a \in Range(ready') /\ sendval'[a] = VInt(c)
               ELSE a \notin Range(ready') ]_vars

\* ------------------------------------------------------------------------
\* C4
\* ------------------------------------------------------------------------
\* C4: a wait-any whose list names an id that is not in the table reschedules
\* the caller at once with the missing id as its resume value and leaves the
\* exit-wait registry as it was, the caller being the watcher of none of the
\* ids listed (so that no later exit of one of them wakes it).
C4_WaitAnyMissing ==
  [][ \A tids \in IdLists(MaxIds) :
        (wait_any(tids) /\ first_missing(tids) # 0) =>
          /\ ready' = Append(Tail(ready), Current)
          /\ sendval'[Current] = VInt(first_missing(tids))
          /\ exit_waiting' = exit_waiting
          /\ \A i \in Range(tids) : Current \notin Range(DictGetList(exit_waiting', i)) ]_vars

\* ------------------------------------------------------------------------
\* C5
\* ------------------------------------------------------------------------
\* C5: a paused task is never on the ready queue (so step() never resumes
\* it); the exit that wakes a task paused while parked, or its timer firing,
\* makes it paused-while-ready with the resume value of that wakeup; and the
\* resume of a task paused while ready puts it at the front of the queue.
C5_PauseWithholds ==
  /\ [](exc = "none" => \A t \in Tids : Paused(t) => ~InReady(t))
  /\ [][ \A c \in Tids : Exits(c) =>
           \A a \in paused_in_syscall :
             Wakes(c, a) => a \in paused_in_ready' /\ sendval'[a] = VInt(c) ]_vars
  /\ [][ \A e \in timer_cb :
           (e \notin timer_cb' /\ e.task \in paused_in_syscall) =>
             e.task \in paused_in_ready' /\ sendval'[e.task] = sendval[e.task] ]_vars
  /\ [][ \A t \in paused_in_ready :
           (Popping /\ t \notin paused_in_ready') => Head(ready') = t ]_vars

\* ------------------------------------------------------------------------
\* C6
\* ------------------------------------------------------------------------
\* the timer e fires in this step
Fires(e) == e \in timer_cb /\ e \notin timer_cb'

\* a comes before b in the queue q
Before(q, a, b) ==
  /\ a \in Range(q)
  /\ b \in Range(q) => IndexOf(q, a) < IndexOf(q, b)

\* the firing timer of a task that is not paused puts it at the front of a
\* ready queue that holds other tasks
FrontOnFire ==
  \A e \in timer_cb :
    (Fires(e) /\ ~Paused(e.task) /\ ready # << >>) => ready' = << e.task >> \o ready

\* C6 as stated: the timer of a task A that is not paused, firing while B is
\* on the ready queue, puts A at the front of the queue, and A is resumed
\* before B: B is never resumed while A, woken in front of it, still waits
\* for its turn.
C6_TimerPriority ==
  [][ /\ FrontOnFire
      /\ Popping => \A p \in prio : p[2] # Current ]_vars

\* C6 amended: the firing timer puts A at the front of the queue, and A is
\* resumed before B unless A or B is paused, or B is woken by a timer of its
\* own, before the turn of A comes.
C6_TimerPriorityUnlessPaused ==
  [][ /\ FrontOnFire
      /\ Popping => \A p \in prio : p[2] = Current => p[3] ]_vars

\* timer_step() has put A in front of B and is about to resume A
C6_Witness ==
  /\ pc = "ts_step"
  /\ ready # << >>
  /\ \E p \in prio : p[1] = Head(ready) /\ InReady(p[2]) /\ ~p[3]

\* ------------------------------------------------------------------------
\* C7
\* ------------------------------------------------------------------------
\* the queues a write of this step finds: those the running task left, or
\* those of the program between two calls
WriteBase == IF pc \in InStep THEN Popped ELSE Queues

\* C7: the write of a condition variable that makes the condition of a task A
\* true, A not being paused, puts A on the ready queue in front of every task
\* that was already on it.
C7_CondPriority ==
  [][ \A name \in Vars : written' = name =>
        \A e \in CondEntries :
          (e \notin CondEntries' /\ ~Paused(e.task)) =>
            \A b \in Range(WriteBase.ready) \ {e.task} :
              Before(ready', e.task, b) ]_vars

\* ------------------------------------------------------------------------
\* C8
\* ------------------------------------------------------------------------
\* the entries whose condition the write of name evaluates
Evaluated(name) == test_conditions(name, val', WriteBase).ev

\* how many times t is in the queue q
Occ(q, t) == Cardinality({ i \in 1..Len(q) : q[i] = t })

\* the write of name leaves the task t where it was
Untouched(t) ==
  /\ Occ(ready', t) = Occ(WriteBase.ready, t)
  /\ t \in paused_in_syscall' <=> t \in paused_in_syscall
  /\ t \in paused_in_ready' <=> t \in paused_in_ready

\* C8: a write of the variable name neither evaluates, nor unregisters, nor
\* wakes an entry whose dependency names do not hold name, whatever its
\* condition is worth; an entry leaves the registry only in the write of one
\* of its dependency names, its condition true and its task not paused in a
\* syscall.
C8_Reactivity ==
  [][ /\ \A name \in Vars : written' = name =>
           \A e \in CondEntries :
             /\ name \notin e.cond.names =>
                  /\ e \notin Evaluated(name)
                  /\ \A n \in e.cond.names :
                       n \in DOMAIN cond_waiting' /\ e \in Range(cond_waiting'[n])
                  /\ Untouched(e.task)
             /\ e \notin CondEntries' =>
                  /\ name \in e.cond.names
                  /\ Holds(e.cond, val')
                  /\ e.task \notin paused_in_syscall
      /\ CondEntries \ CondEntries' # {} => written' \in Vars ]_vars

\* y has just been written while a task that is not paused waits on a
\* condition that does not name y and is true
C8_Witness ==
  /\ written = "y"
  /\ \E e \in CondEntries :
       /\ "y" \notin e.cond.names
       /\ Holds(e.cond, val)
       /\ ~Paused(e.task)

\* ------------------------------------------------------------------------
\* C9
\* ------------------------------------------------------------------------
\* C9: run() does not fail taking the earliest timer off an empty heap.
C9_RunReturns == exc # "IndexError"

\* ------------------------------------------------------------------------
\* C10
\* ------------------------------------------------------------------------
\* the timers of s are in the order of (deadline, sequence number)
Ascending(s) == \A i, j \in 1..Len(s) : i < j => Earlier(s[i], s[j])

\* the timers that had elapsed when timer_step() was called
Due == { e \in ts_heap.heap : e.t <= ts_heap.now }

\* C10: the loop of timer_step() fires exactly the timers whose deadline is
\* not after the current time, in the order of (deadline, sequence number),
\* and leaves the others on the heap; timer_step() never sleeps, the time is
\* the same throughout; and it returns with the ready queue drained.
C10_TimerStep ==
  [][ /\ (pc = "ts_loop" /\ pc' = "ts_step") =>
           /\ Range(ts_fired) = Due
           /\ Len(ts_fired) = Cardinality(Due)
           /\ Ascending(ts_fired)
           /\ timer_cb = ts_heap.heap \ Due
           /\ \A e \in timer_cb : e.t > now
      /\ pc \in {"ts_loop", "ts_step"} => now' = now
      /\ (pc = "ts_step" /\ pc' = "idle") => ready = << >> ]_vars

\* timer_step() has fired the timer scheduled last, whose deadline had come,
\* left on the heap the one scheduled first, whose deadline is later, and
\* goes on to drain the ready queue
C10_Witness ==
  /\ pc = "ts_step"
  /\ Len(ts_fired) = 1
  /\ \E e \in timer_cb : e.counter < ts_fired[1].counter /\ e.t > now

\* ------------------------------------------------------------------------
\* C11
\* ------------------------------------------------------------------------
\* the tasks that the kill-all-except of t closed, t not having been resumed
\* since: its pending resume value is the list of them
KilledBy(t) == IF sendval[t].kind = "tasks" THEN Range(sendval[t].l) ELSE {}

\* C11: when the caller of a kill-all-except that spared itself is next
\* resumed, none of the tasks it killed is in the task table, and the
\* list-ids it then issues returns none of them.
C11_KillAllExcept ==
  [][ (Popping /\ Current \notin KilledBy(Current)) =>
        /\ KilledBy(Current) \cap taskmap = {}
        /\ GetTids => Range(sendval'[Current].l) \cap KilledBy(Current) = {} ]_vars

\* ------------------------------------------------------------------------
\* C12
\* ------------------------------------------------------------------------
\* the tasks of the table whose coroutine a kill closed
Killed == closed \cap taskmap

\* the step is the dispatch of a kill that closed the tasks of closed' \ closed
Kills == Popping /\ taskmap' = taskmap /\ closed' # closed

\* C12: the dispatch of a kill leaves the exit-wait registry and the timer
\* heap as they were and puts no watcher of a killed task on the ready queue;
\* and no later step of the scheduler wakes the watchers of a killed task on
\* account of it: the step that takes the killed task off the table leaves
\* its watchers where they were, with the resume value they had.
C12_KillSilent ==
  [][ /\ Kills =>
           /\ exit_waiting' = exit_waiting
           /\ timer_cb' = timer_cb
           /\ \A c \in closed' \ closed : \A a \in Watchers(c) \ {Current} :
                Occ(ready', a) = Occ(ready, a)
      /\ \A c \in Killed : Exits(c) =>
           \A a \in Watchers(c) :
             /\ Occ(ready', a) = Occ(Tail(ready), a)
             /\ a \in paused_in_ready' <=> a \in paused_in_ready
             /\ sendval'[a] = sendval[a] ]_vars

\* ------------------------------------------------------------------------
\* C13
\* ------------------------------------------------------------------------
\* the dispatch raises nothing, puts the caller back at the end of the ready
\* queue with the resume value v and changes nothing else
Refused(v) ==
  /\ exc' = "none"
  /\ ready' = Append(Tail(ready), Current)
  /\ sendval' = [sendval EXCEPT ![Current] = v]
  /\ UNCHANGED << taskmap, exit_waiting, cond_waiting, paused_in_syscall,
                  paused_in_ready >>

\* C13: a kill-task, wait-task, pause-task or resume-task of an id that is
\* not in the task table, and a kill-tasks, wait-all, pause-tasks or
\* resume-tasks of a list of such ids, raises nothing and puts the caller
\* back on the ready queue in the same dispatch with False (wait-all too),
\* or the empty list for kill-tasks, pause-tasks and resume-tasks; the task
\* table, the registries, the pause sets and the rest of the ready queue are
\* as they were.
C13_AbsentTarget ==
  [][ /\ (KillAbsent \/ WaitAbsent \/ PauseAbsent \/ ResumeAbsent \/ WaitAllAbsent)
           => Refused(VBool(FALSE))
      /\ (KillTasksAbsent \/ PauseTasksAbsent \/ ResumeTasksAbsent)
           => Refused(VList(<< >>)) ]_vars

\* a task is back on the ready queue with the empty list for its request on
\* absent ids, while a task is watched and a task is paused
C13_Witness ==
  /\ \E t \in taskmap : InReady(t) /\ sendval[t] = VList(<< >>)
  /\ exit_waiting # << >>
  /\ paused_in_syscall # {}

\* ------------------------------------------------------------------------
\* C14
\* ------------------------------------------------------------------------
\* the time at which the next wakeup by the rate r is due: the end of its
\* period number k + 1
due(r) == r.t0 + (r.k + 1) * r.duration

\* C14: a task whose rate has fired its timers at their deadlines and that
\* sleeps on it before the end of the current period is given a timer at the
\* end of that period, t0 + (k+1)*P, k being the wakeups the rate has given
\* so far, whatever the time the task took since; one that sleeps at or after
\* the end of the period is woken at once.
C14_RateNoDrift ==
  [][ \A w \in 0..MaxWork :
        (sleep(w) /\ ~rate[Current].late) =>
          IF now' < due(rate[Current])
          THEN \E e \in timer_cb' \ timer_cb :
                 e.task = Current /\ e.t = due(rate[Current])
          ELSE timer_cb' = timer_cb /\ Current \in Range(ready') ]_vars

\* ------------------------------------------------------------------------
\* C15
\* ------------------------------------------------------------------------
\* C15: a sleep on a rate whose remaining duration is not positive sets no
\* timer and puts the caller at the front of the ready queue, before every
\* task that is ready, with that remaining duration as its resume value.
C15_RateOverrun ==
  [][ \A w \in 0..MaxWork :
        (sleep(w) /\ delta_time(rate[Current], now') <= 0) =>
          /\ timer_cb' = timer_cb
          /\ ready' = << Current >> \o Tail(ready)
          /\ sendval'[Current] = VInt(delta_time(rate[Current], now')) ]_vars


\* ------------------------------------------------------------------------
\* C16: in every reachable state every key of the exit-wait registry is the
\* id of a task in the task table: wait_for_exit registers only under ids
\* of the table, and exit() pops the key of the task it takes off the table.
\* ------------------------------------------------------------------------
C16_RegistryKeysLive == DOMAIN exit_waiting \subseteq taskmap

\* a watched task has left the table and its watcher was woken with its id,
\* while another task is still watched
C16_Witness ==
  \E t \in closed \ taskmap : \E w \in taskmap :
    /\ InReady(w)
    /\ sendval[w] = VInt(t)
    /\ exit_waiting # << >>


\* ------------------------------------------------------------------------
\* C17: step() returns only when the ready queue is empty; a task is taken
\* from the front of the queue, and one that plain-suspends, or whose request
\* handler reschedules it normally, goes to the back, behind every task that
\* was ready at that moment and in their order: the queue after the step is
\* the rest of the queue followed by the task.  Tasks that only do this are
\* therefore resumed in rotation.
\* ------------------------------------------------------------------------
\* the drain with plain suspensions, requests that reschedule, pauses,
\* resumes and exits
NextStep ==
  \/ New \/ CallStep \/ StepReturn
  \/ TaskExit \/ TaskYield \/ GetTid \/ PauseTask \/ ResumeTask

SpecStep == Init /\ [][NextStep]_vars

C17_StepFifo ==
  [][ /\ (pc \in InStep /\ pc' \notin InStep) => ready = << >>
      /\ (TaskYield \/ GetTid) => ready' = Append(Tail(ready), Head(ready)) ]_vars

\* three tasks have rotated: the queue is a rotation of the order in which
\* they were created, after a plain suspension
C17_Witness ==
  /\ pc \in InStep
  /\ ready = << 2, 3, 1 >>
  /\ paused_in_ready = {} /\ paused_in_syscall = {}
  /\ \A t \in 1..3 : sendval[t] = VNone


\* ------------------------------------------------------------------------
\* C18: in every reachable state each task occurs at most once in the ready
\* queue, whatever the requests and exits, wait-any and wait-all requests
\* that name one task several times included; and no task that has left
\* the table is exited again.
\* ------------------------------------------------------------------------
C18_ReadyOnce ==
  /\ \A t \in Tids : Occ(ready, t) <= 1
  /\ exc # "KeyError"


\* ------------------------------------------------------------------------
\* C19: a task parked by wait-condition and paused is not woken by a write
\* that makes its condition true; when it is resumed afterwards the
\* condition is not looked at: the task stays registered and off the ready
\* queue.  A registered task comes onto the ready queue only in the write
\* of one of its dependency names at which its condition is true and it is
\* not paused; without such a write it stays parked.
\* ------------------------------------------------------------------------
C19_ResumeKeepsWaiting ==
  [][ \A e \in CondEntries :
        /\ (e.task \in paused_in_syscall /\ e.task \notin paused_in_syscall') =>
              /\ e \in CondEntries'
              /\ e.task \notin Range(ready') \cup paused_in_ready'
        /\ (e.task \notin Range(ready) /\ e.task \in Range(ready')) =>
              /\ written' \in e.cond.names
              /\ Holds(e.cond, val')
              /\ e.task \notin paused_in_syscall ]_vars

\* a task is registered, its condition true, and it is neither paused nor on
\* the ready queue: it was paused at the write and has been resumed since
C19_Witness ==
  \E e \in CondEntries :
    /\ Holds(e.cond, val)
    /\ ~Paused(e.task)
    /\ ~InReady(e.task)
    /\ \E r \in taskmap \ {e.task} : sendval[r] = VBool(TRUE)


\* ------------------------------------------------------------------------
\* C20
\* ------------------------------------------------------------------------
\* the tasks woken by the timers timer_step() has fired so far, the last
\* fired first; a task that was paused when its timer fired is withheld in
\* paused_in_ready and is not among them
Reverse(s) == [i \in 1..Len(s) |-> s[Len(s) + 1 - i]]
FiredAwake ==
  LET awake == SelectSeq(ts_fired, LAMBDA e : e.task \notin paused_in_ready)
  IN  Reverse([i \in 1..Len(awake) |-> awake[i].task])

\* when the loop of timer_step() is over the ready queue starts with the
\* woken tasks in the reverse of the order in which their timers fired, in
\* front of the tasks that were ready before
FiredInFront ==
  (pc = "ts_loop" /\ pc' = "ts_step") =>
     /\ Len(FiredAwake) <= Len(ready')
     /\ SubSeq(ready', 1, Len(FiredAwake)) = FiredAwake

\* a task over which a timer of this timer_step() has put another
Overtaken(p) == p[2] = Current /\ \E e \in Range(ts_fired) : e.task = p[1]

\* C20 as stated: the tasks woken by the timers fired in one timer_step()
\* are on the ready queue in the reverse of the firing order, ahead of the
\* tasks already ready, and are resumed in that order in the drain that
\* follows: no task is resumed while a task woken in front of it by this
\* timer_step() still waits for its turn.
C20_ReverseFiring ==
  [][ /\ FiredInFront
      /\ (Popping /\ pc = "ts_step") => \A p \in prio : ~Overtaken(p) ]_vars

\* C20 amended: the queue is as stated when the drain starts, and the woken
\* tasks are resumed in that order, ahead of the tasks already ready, unless
\* one of the two tasks is paused before the turn of the one in front comes.
C20_ReverseFiringUnlessPaused ==
  [][ /\ FiredInFront
      /\ (Popping /\ pc = "ts_step") => \A p \in prio : Overtaken(p) => p[3] ]_vars

\* one timer_step() has fired the timers of two tasks while a third was
\* ready: the drain starts with the later fired, the earlier fired, the third
C20_Witness ==
  /\ pc = "ts_step"
  /\ Len(ts_fired) = 2
  /\ Len(ready) = 3
  /\ ready[1] = ts_fired[2].task
  /\ ready[2] = ts_fired[1].task
  /\ ready[3] \notin { ts_fired[1].task, ts_fired[2].task }

====
